---- MODULE Spec2Model ----
(***************************************************************************)
(* Advent of Code 2020, days 2-4: the token-stream record parsers          *)
(* (examples/day-02.rs, examples/day-04.rs), their validators, and the     *)
(* toboggan map (examples/day-03.rs).                                      *)
(*                                                                         *)
(* Each example binary is its own program; `prog` says which one's objects *)
(* exist in a behaviour.  A lexer is modelled by the sequence of tokens it *)
(* yields for the source text together with a cursor; Option<T> is a       *)
(* sequence of length 0 (None) or 1 (Some).                                *)
(***************************************************************************)
EXTENDS Integers, Sequences, FiniteSets, TLC

VARIABLES
    prog,       \* "day04" | "passport" | "day02" | "rule" | "day03"
    facts,      \* day-04: the tokens Fact::lexer yields for the source
    fpos,       \* day-04: how many of them the lexer has yielded
    passport,   \* day-04: the Passport handed to is_valid
    lexer,      \* day-02: the tokens PasswordRuleToken::lexer yields
    lpos,       \* day-02: how many of them the lexer has yielded
    iter,       \* day-02: the Parser has been moved into a ParserIntoIter
    overflow_checks, \* day-02: the build panics on arithmetic overflow
    rule,       \* day-02: the PasswordRule handed to is_valid
    source,     \* day-03: the characters of the map text
    map,        \* day-03: Option<Map>, the value Map::parse returned
    hist,       \* the calls made so far, each with what it returned
    panicked    \* the thread has panicked (the process is gone)

vars ==
    <<prog, facts, fpos, passport, lexer, lpos, iter, overflow_checks, rule,
      source, map, hist, panicked>>

day04_vars == <<facts, fpos, passport>>
day02_vars == <<lexer, lpos, iter, overflow_checks, rule>>
day03_vars == <<source, map>>

----------------------------------------------------------------------------
(* Bounds of the explored inputs.                                          *)

MaxTokens == 3
MaxCalls == 5
MaxLines == 2
MaxSpot == 3
MaxPassword == 3
MaxSource == 5
MaxX == 4
MaxY == 3
MaxDeltaX == 2
MaxDeltaY == 2

----------------------------------------------------------------------------
(* Option<T>                                                               *)

None == <<>>
Some(x) == <<x>>
is_none(o) == o = <<>>
is_some(o) == o # <<>>
unwrap(o) == o[1]

----------------------------------------------------------------------------
(* examples/day-04.rs                                                      *)

FieldTags ==
    {"BirthYear", "CountryId", "EyeColor", "ExpirationYear",
     "HairColor", "Height", "IssueYear", "PassportId"}

Tok(tag, val) == [tag |-> tag, val |-> val]

\* The tokens the explored sources are made of: every variant of Fact, and
\* BirthYear with two payloads so that a repeated field is observable.
Fact ==
    {Tok(t, "v1") : t \in FieldTags} \cup {Tok("BirthYear", "v2")}
    \cup {Tok("DocumentEnd", ""), Tok("Invalid", ""), Tok("Error", "")}

Passport_default ==
    [birth_year |-> None, country_id |-> None, eye_color |-> None,
     expiration_year |-> None, hair_color |-> None, height |-> None,
     issue_year |-> None, passport_id |-> None]

is_empty_all_some(p) ==
    \A o \in {p.birth_year, p.country_id, p.eye_color, p.expiration_year,
              p.hair_color, p.height, p.issue_year, p.passport_id} : is_some(o)

is_empty(p) ==
    \A o \in {p.birth_year, p.country_id, p.eye_color, p.expiration_year,
              p.hair_color, p.height, p.issue_year, p.passport_id} : is_none(o)

is_valid_with_country(p) ==
    \A o \in {p.birth_year, p.country_id, p.eye_color, p.expiration_year,
              p.hair_color, p.height, p.issue_year, p.passport_id} : is_some(o)

is_valid(p) ==
    \A o \in {p.birth_year, p.eye_color, p.expiration_year,
              p.hair_color, p.height, p.issue_year, p.passport_id} : is_some(o)

\* One arm of the match in PassportParser::next: what a token does to the
\* passport being accumulated.
match_arm(p, tok) ==
    CASE tok.tag = "BirthYear"      -> [p EXCEPT !.birth_year = Some(tok.val)]
      [] tok.tag = "CountryId"      -> [p EXCEPT !.country_id = Some(tok.val)]
      [] tok.tag = "EyeColor"       -> [p EXCEPT !.eye_color = Some(tok.val)]
      [] tok.tag = "ExpirationYear" -> [p EXCEPT !.expiration_year = Some(tok.val)]
      [] tok.tag = "HairColor"      -> [p EXCEPT !.hair_color = Some(tok.val)]
      [] tok.tag = "Height"         -> [p EXCEPT !.height = Some(tok.val)]
      [] tok.tag = "IssueYear"      -> [p EXCEPT !.issue_year = Some(tok.val)]
      [] tok.tag = "PassportId"     -> [p EXCEPT !.passport_id = Some(tok.val)]
      [] tok.tag \in {"Error", "Invalid"} -> p

\* Lexer::next on a lexer that has yielded n of toks: the token and the new
\* count.  An exhausted lexer keeps answering None.
lexer_next_off_by_one(toks, n) ==
    IF n + 1 < Len(toks) THEN [tok |-> Some(toks[n + 1]), pos |-> n + 1]
                         ELSE [tok |-> None, pos |-> n]

lexer_next(toks, n) ==
    IF n < Len(toks) THEN [tok |-> Some(toks[n + 1]), pos |-> n + 1]
                     ELSE [tok |-> None, pos |-> n]

\* The loop of PassportParser::next, started with passport p on a lexer that
\* has yielded n tokens: the value returned and the lexer's new count.
RECURSIVE next_loop(_, _, _)
next_loop(toks, n, p) ==
    LET t == lexer_next(toks, n) IN
    IF is_none(t.tok) \/ unwrap(t.tok).tag = "DocumentEnd"
    THEN [ret |-> IF is_empty(p) THEN None ELSE Some(p), pos |-> t.pos]
    ELSE next_loop(toks, t.pos, match_arm(p, unwrap(t.tok)))

\* A call recorded in hist: the operation, what it returned and the tokens
\* lo..hi it read.
Call(op, ret, lo, hi) == [op |-> op, ret |-> ret, lo |-> lo, hi |-> hi]

PassportParser_next ==
    /\ prog = "day04"
    /\ ~panicked
    /\ Len(hist) < MaxCalls
    /\ LET r == next_loop(facts, fpos, Passport_default) IN
         /\ fpos' = r.pos
         /\ hist' = Append(hist, Call("next", r.ret, fpos + 1, r.pos))
    /\ UNCHANGED <<prog, facts, passport, day02_vars, day03_vars, panicked>>

SeqsUpTo(S, n) == UNION {[1..k -> S] : k \in 0..n}

\* The objects of the example binaries that are not running.
NoDay04 == facts = <<>> /\ fpos = 0 /\ passport = Passport_default
NoDay02 ==
    /\ lexer = <<>> /\ lpos = 0 /\ iter = FALSE
    /\ overflow_checks = FALSE /\ rule = None
NoDay03 == source = <<>> /\ map = None

InitDay04 ==
    /\ prog = "day04"
    /\ facts \in SeqsUpTo(Fact, MaxTokens)
    /\ fpos = 0 /\ passport = Passport_default
    /\ NoDay02 /\ NoDay03
    /\ hist = <<>> /\ panicked = FALSE

SpecDay04 == InitDay04 /\ [][PassportParser_next]_vars

\* main's filter(|f| f.is_valid()): the validator applied to one Passport.
Passport_is_valid ==
    /\ prog = "passport"
    /\ hist = <<>>
    /\ hist' = <<Call("is_valid", Some(is_valid(passport)), 0, 0)>>
    /\ UNCHANGED <<prog, day04_vars, day02_vars, day03_vars, panicked>>

Passports ==
    [birth_year : {None, Some("v1")}, country_id : {None, Some("v1")},
     eye_color : {None, Some("v1")}, expiration_year : {None, Some("v1")},
     hair_color : {None, Some("v1")}, height : {None, Some("v1")},
     issue_year : {None, Some("v1")}, passport_id : {None, Some("v1")}]

InitPassport ==
    /\ prog = "passport"
    /\ passport \in Passports
    /\ facts = <<>> /\ fpos = 0
    /\ NoDay02 /\ NoDay03
    /\ hist = <<>> /\ panicked = FALSE

SpecPassport == InitPassport /\ [][Passport_is_valid]_vars

----------------------------------------------------------------------------
(* examples/day-02.rs                                                      *)

\* PasswordRuleToken.  A variant without a payload carries the defaults.
Number(n) == [tag |-> "Number", n |-> n, c |-> "", pw |-> <<>>]
Dash == [tag |-> "Dash", n |-> 0, c |-> "", pw |-> <<>>]
TargetCharacter(c) == [tag |-> "TargetCharacter", n |-> 0, c |-> c, pw |-> <<>>]
Password(pw) == [tag |-> "Password", n |-> 0, c |-> "", pw |-> pw]
PasswordRuleToken_Error == [tag |-> "Error", n |-> 0, c |-> "", pw |-> <<>>]

\* usize::MAX, the value of (0u64 - 1) as usize where overflow wraps.  The
\* model checker's integers are 32 bits wide, so the largest of them stands
\* for it: all that is used of it is that no password is that long.
usize_MAX == 2147483647

PasswordRule(first_spot, second_spot, target_char, password) ==
    [first_spot |-> first_spot, second_spot |-> second_spot,
     target_char |-> target_char, password |-> password]

\* str::chars().nth(i)
nth(chars, i) == IF i < Len(chars) THEN Some(chars[i + 1]) ELSE None

PasswordRule_is_valid_either(r) ==
    LET first_spot == nth(r.password, r.first_spot)
        second_spot == nth(r.password, r.second_spot)
    IN  \/ is_some(first_spot) /\ unwrap(first_spot) = r.target_char
        \/ is_some(second_spot) /\ unwrap(second_spot) = r.target_char

PasswordRule_is_valid(r) ==
    LET first_spot == nth(r.password, r.first_spot)
        second_spot == nth(r.password, r.second_spot)
    IN  IF /\ is_some(first_spot) /\ is_some(second_spot)
           /\ unwrap(first_spot) = r.target_char
           /\ unwrap(second_spot) = r.target_char
        THEN FALSE
        ELSE IF is_some(first_spot) /\ unwrap(first_spot) = r.target_char
        THEN TRUE
        ELSE IF is_some(second_spot) /\ unwrap(second_spot) = r.target_char
        THEN TRUE
        ELSE FALSE

\* Result<T, String>
Ok(x) == <<"Ok", x>>
Err(e) == <<"Err", e>>
is_ok(r) == r[1] = "Ok"

\* `if let Some(PasswordRuleToken::X(..)) = self.lexer.next()`
if_let(tok, tag) == is_some(tok) /\ unwrap(tok).tag = tag

one_based(n) == n

\* (n - 1) as usize, where it does not panic.
minus_one(n) == IF n = 0 THEN usize_MAX ELSE n - 1

\* Parser::parse_rule on a lexer that has yielded n0 of toks: the Result,
\* the lexer's new count, and whether the subtraction panicked.
parse_rule(toks, n0, checks) ==
    LET out(res, n, p) == [res |-> res, pos |-> n, panic |-> p]
        t1 == lexer_next(toks, n0)
        t2 == lexer_next(toks, t1.pos)
        t3 == lexer_next(toks, t2.pos)
        t4 == lexer_next(toks, t3.pos)
        t5 == lexer_next(toks, t4.pos)
    IN  IF ~if_let(t1.tok, "Number")
        THEN out(Err("Expected the first password rule number!"), t1.pos, FALSE)
        ELSE IF unwrap(t1.tok).n = 0 /\ checks
        THEN out(Err("attempt to subtract with overflow"), t1.pos, TRUE)
        ELSE IF ~if_let(t2.tok, "Dash")
        THEN out(Err("Expected the dash!"), t2.pos, FALSE)
        ELSE IF ~if_let(t3.tok, "Number")
        THEN out(Err("Expected the second password rule number!"), t3.pos, FALSE)
        ELSE IF unwrap(t3.tok).n = 0 /\ checks
        THEN out(Err("attempt to subtract with overflow"), t3.pos, TRUE)
        ELSE IF ~if_let(t4.tok, "TargetCharacter")
        THEN out(Err("Expected the required target character!"), t4.pos, FALSE)
        ELSE IF ~if_let(t5.tok, "Password")
        THEN out(Err("Expected the password itself!"), t5.pos, FALSE)
        ELSE out(Ok(PasswordRule(minus_one(unwrap(t1.tok).n),
                                 minus_one(unwrap(t3.tok).n),
                                 unwrap(t4.tok).c,
                                 unwrap(t5.tok).pw)),
                 t5.pos, FALSE)

\* A direct call of Parser::parse_rule, possible until into_iter has taken
\* the Parser.
Parser_parse_rule ==
    /\ prog = "day02"
    /\ ~panicked
    /\ ~iter
    /\ Len(hist) < MaxCalls
    /\ LET r == parse_rule(lexer, lpos, overflow_checks) IN
         /\ lpos' = r.pos
         /\ panicked' = r.panic
         /\ hist' = IF r.panic THEN hist
                    ELSE Append(hist, Call("parse_rule", r.res, lpos + 1, r.pos))
    /\ UNCHANGED <<prog, day04_vars, lexer, iter, overflow_checks, rule, day03_vars>>

Parser_into_iter ==
    /\ prog = "day02"
    /\ ~panicked
    /\ ~iter
    /\ iter' = TRUE
    /\ UNCHANGED <<prog, day04_vars, lexer, lpos, overflow_checks, rule,
                   day03_vars, hist, panicked>>

ParserIntoIter_next ==
    /\ prog = "day02"
    /\ ~panicked
    /\ iter
    /\ Len(hist) < MaxCalls
    /\ LET r == parse_rule(lexer, lpos, overflow_checks) IN
         /\ lpos' = r.pos
         /\ panicked' = r.panic
         /\ hist' = IF r.panic THEN hist
                    ELSE Append(hist,
                           Call("next",
                                IF is_ok(r.res) THEN Some(r.res[2]) ELSE None,
                                lpos + 1, r.pos))
    /\ UNCHANGED <<prog, day04_vars, lexer, iter, overflow_checks, rule, day03_vars>>

\* The explored sources, line by line, as their tokens: rule lines
\* "N-M c: pw", a line of unrecognized characters, and the rule line
\* "1-3 a: abcde" with unrecognized characters at one place inside it.
RuleNumbers == {0, 1, 3}
RuleTexts == {<<"a", <<"a", "b", "c", "d", "e">>>>, <<"b", <<"b", "a">>>>}

RuleLine(N, M, c, pw) ==
    <<Number(N), Dash, Number(M), TargetCharacter(c), Password(pw)>>

BrokenLine(k) ==
    LET line == RuleLine(1, 3, "a", <<"a", "b", "c", "d", "e">>) IN
    SubSeq(line, 1, k) \o <<PasswordRuleToken_Error>> \o SubSeq(line, k + 1, 5)

Lines ==
    {RuleLine(N, M, t[1], t[2]) : N \in RuleNumbers, M \in RuleNumbers, t \in RuleTexts}
    \cup {<<PasswordRuleToken_Error>>}
    \cup {BrokenLine(k) : k \in 1..4}

RECURSIVE Concat(_)
Concat(ls) == IF ls = <<>> THEN <<>> ELSE Head(ls) \o Concat(Tail(ls))

InitDay02 ==
    /\ prog = "day02"
    /\ lexer \in {Concat(ls) : ls \in SeqsUpTo(Lines, MaxLines)}
    /\ lpos = 0 /\ iter = FALSE /\ rule = None
    /\ overflow_checks \in BOOLEAN
    /\ NoDay04 /\ NoDay03
    /\ hist = <<>> /\ panicked = FALSE

SpecDay02 ==
    InitDay02 /\ [][Parser_parse_rule \/ Parser_into_iter \/ ParserIntoIter_next]_vars

\* main's filter(|rule| rule.is_valid()): the validator applied to one rule.
Rule_is_valid ==
    /\ prog = "rule"
    /\ hist = <<>>
    /\ hist' = <<Call("is_valid", Some(PasswordRule_is_valid(rule)), 0, 0)>>
    /\ UNCHANGED <<prog, day04_vars, day02_vars, day03_vars, panicked>>

Spots == 0..MaxSpot \cup {usize_MAX}

InitRule ==
    /\ prog = "rule"
    /\ rule \in {PasswordRule(f, s, c, pw) :
                    f \in Spots, s \in Spots, c \in {"a", "b"},
                    pw \in SeqsUpTo({"a", "b"}, MaxPassword)}
    /\ lexer = <<>> /\ lpos = 0 /\ iter = FALSE /\ overflow_checks = FALSE
    /\ NoDay04 /\ NoDay03
    /\ hist = <<>> /\ panicked = FALSE

SpecRule == InitRule /\ [][Rule_is_valid]_vars

----------------------------------------------------------------------------
(* examples/day-03.rs                                                      *)

\* The characters the explored map texts are made of: the two tiles, the
\* newline, a blank (skipped by the lexer) and an unrecognized character.
Chars == {".", "#", "\n", " ", "x"}

\* Tile::lexer: the token of one character.
Tile(ch) ==
    CASE ch = "."  -> "Open"
      [] ch = "#"  -> "Tree"
      [] ch = "\n" -> "RowEnd"
      [] OTHER     -> "Error"

\* The tokens the lexer yields for a text: blanks are skipped, and every
\* other character is a token of its own.
RECURSIVE Tile_lexer(_)
Tile_lexer(src) ==
    IF src = <<>> THEN <<>>
    ELSE IF Head(src) \in {" ", "\t", "\f"} THEN Tile_lexer(Tail(src))
    ELSE <<Tile(Head(src))>> \o Tile_lexer(Tail(src))

\* tokens.clone().take_while(|token| *token != Tile::RowEnd).count()
RECURSIVE take_while_count(_)
take_while_count(toks) ==
    IF toks = <<>> \/ Head(toks) = "RowEnd" THEN 0
    ELSE 1 + take_while_count(Tail(toks))

unfiltered(toks) == toks

\* tokens.filter(|token| *token == Tile::Open || *token == Tile::Tree)
IsTile(t) == t = "Open" \/ t = "Tree"
filter_tiles(toks) == SelectSeq(toks, IsTile)

\* Map::parse: the Map, or Panic where tiles.len() / width divides by zero.
Panic == <<"panic", "panic">>

Map_parse_of_round_up(toks) ==
    LET width == take_while_count(toks)
        tiles == filter_tiles(toks)
    IN  IF width = 0 THEN Panic
        ELSE Some([tiles |-> tiles, width |-> width,
                   height |-> (Len(tiles) + width - 1) \div width])

Map_parse_of(toks) ==
    LET width == take_while_count(toks)
        tiles == filter_tiles(toks)
    IN  IF width = 0 THEN Panic
        ELSE Some([tiles |-> tiles, width |-> width, height |-> Len(tiles) \div width])

tile_at_no_wrap(m, x, y) ==
    IF y >= m.height THEN None
    ELSE LET idx == (y * m.width) + x IN
         IF idx < Len(m.tiles) THEN Some(m.tiles[idx + 1]) ELSE Panic

\* Map::tile_at; indexing tiles out of range panics.
tile_at(m, x, y) ==
    IF y >= m.height THEN None
    ELSE LET idx == (y * m.width) + (x % m.width) IN
         IF idx < Len(m.tiles) THEN Some(m.tiles[idx + 1]) ELSE Panic

\* build_slope(delta_x, delta_y): the k-th pair of the two zipped successions.
build_slope(delta_x, delta_y, k) == <<k * delta_x, k * delta_y>>

\* course.map(tile_at) from the k-th pair on, through take_while(is_some)
\* and flatten.
RECURSIVE take_while_some(_, _, _, _)
take_while_some(m, delta_x, delta_y, k) ==
    LET xy == build_slope(delta_x, delta_y, k)
        t == tile_at(m, xy[1], xy[2])
    IN  IF t = Panic THEN Panic
        ELSE IF is_none(t) THEN <<>>
        ELSE LET rest == take_while_some(m, delta_x, delta_y, k + 1) IN
             IF rest = Panic THEN Panic ELSE <<unwrap(t)>> \o rest

toboggan_path_no_skip(m, delta_x, delta_y) ==
    take_while_some(m, delta_x, delta_y, 0)

\* Map::toboggan_path over a fresh build_slope(delta_x, delta_y): skip(1)
\* evaluates and drops the pair (0, 0).
toboggan_path(m, delta_x, delta_y) ==
    IF tile_at(m, 0, 0) = Panic THEN Panic
    ELSE take_while_some(m, delta_x, delta_y, 1)

\* A call on the Map recorded in hist: the operation, its arguments and
\* what it returned.
Query(op, args, ret) == [op |-> op, args |-> args, ret |-> ret]

Map_parse ==
    /\ prog = "day03"
    /\ ~panicked
    /\ map = None
    /\ LET m == Map_parse_of(Tile_lexer(source)) IN
         /\ panicked' = (m = Panic)
         /\ map' = IF m = Panic THEN None ELSE m
    /\ UNCHANGED <<prog, day04_vars, day02_vars, source, hist>>

Map_tile_at ==
    /\ prog = "day03"
    /\ ~panicked
    /\ map # None
    /\ hist = <<>>
    /\ \E x \in 0..MaxX, y \in 0..MaxY :
         LET t == tile_at(unwrap(map), x, y) IN
           /\ panicked' = (t = Panic)
           /\ hist' = IF t = Panic THEN hist ELSE <<Query("tile_at", <<x, y>>, t)>>
    /\ UNCHANGED <<prog, day04_vars, day02_vars, day03_vars>>

\* The slopes explored have delta_y >= 1, as all of main's have: with
\* delta_y = 0 the walk never leaves row 0.
Map_toboggan_path ==
    /\ prog = "day03"
    /\ ~panicked
    /\ map # None
    /\ hist = <<>>
    /\ \E delta_x \in 0..MaxDeltaX, delta_y \in 1..MaxDeltaY :
         LET p == toboggan_path(unwrap(map), delta_x, delta_y) IN
           /\ panicked' = (p = Panic)
           /\ hist' = IF p = Panic THEN hist
                      ELSE <<Query("toboggan_path", <<delta_x, delta_y>>, p)>>
    /\ UNCHANGED <<prog, day04_vars, day02_vars, day03_vars>>

InitDay03 ==
    /\ prog = "day03"
    /\ source \in SeqsUpTo(Chars, MaxSource)
    /\ map = None
    /\ NoDay04 /\ NoDay02
    /\ hist = <<>> /\ panicked = FALSE

SpecDay03 ==
    InitDay03 /\ [][Map_parse \/ Map_tile_at \/ Map_toboggan_path]_vars

\* Both record parsers, one of them per behaviour.
InitParsers == InitDay02 \/ InitDay04

SpecParsers ==
    InitParsers /\
    [][PassportParser_next \/ Parser_parse_rule \/ Parser_into_iter
         \/ ParserIntoIter_next]_vars

----------------------------------------------------------------------------
(* Day 4: what the claims speak of.                                        *)

\* The calls of Iterator::next, in order.
IsNextCall(c) == c.op = "next"
NextCalls == SelectSeq(hist, IsNextCall)

\* The calls of the iteration: those up to and including the first that
\* returned None (an Iterator's consumer stops there).
FirstNone ==
    IF \E i \in 1..Len(NextCalls) : is_none(NextCalls[i].ret)
    THEN CHOOSE i \in 1..Len(NextCalls) :
            /\ is_none(NextCalls[i].ret)
            /\ \A j \in 1..(i - 1) : is_some(NextCalls[j].ret)
    ELSE 0

IterationOver == FirstNone > 0

\* The records the iteration yielded, in order.
Yielded == [i \in 1..(FirstNone - 1) |-> unwrap(NextCalls[i].ret)]

IsField(tok) == tok.tag \in FieldTags

WellFormedFacts(toks) ==
    \A i \in 1..Len(toks) : IsField(toks[i]) \/ toks[i].tag = "DocumentEnd"

\* The positions that open a non-empty block: a field token with no field
\* token before it in its block.
BlockStarts(toks) ==
    {i \in 1..Len(toks) :
        /\ IsField(toks[i])
        /\ \A j \in 1..(i - 1) :
              IsField(toks[j]) =>
                 \E k \in (j + 1)..(i - 1) : toks[k].tag = "DocumentEnd"}

TagOfField ==
    [birth_year |-> "BirthYear", country_id |-> "CountryId",
     eye_color |-> "EyeColor", expiration_year |-> "ExpirationYear",
     hair_color |-> "HairColor", height |-> "Height",
     issue_year |-> "IssueYear", passport_id |-> "PassportId"]

Populated(p) == {f \in DOMAIN p : p[f] # <<>>}

\* C1: over a stream of field tokens and DocumentEnd markers only, the
\* iteration (next() until the first None) yields one Passport per
\* non-empty block of field tokens.
C1_OnePassportPerBlock ==
    (prog = "day04" /\ WellFormedFacts(facts) /\ IterationOver)
        => Len(Yielded) = Cardinality(BlockStarts(facts))

\* C2: every call returned None or one Passport with a populated field,
\* whose fields come from the tokens that call read; the calls read
\* disjoint, consecutive stretches of the stream.
C2_NonEmptyAndOnce ==
    prog = "day04" =>
      \A i \in 1..Len(hist) :
        LET c == hist[i] IN
          /\ c.lo = (IF i = 1 THEN 1 ELSE hist[i - 1].hi + 1)
          /\ c.lo - 1 <= c.hi /\ c.hi <= Len(facts)
          /\ is_some(c.ret) =>
               /\ Populated(unwrap(c.ret)) # {}
               /\ \A f \in Populated(unwrap(c.ret)) :
                     \E k \in c.lo..c.hi :
                        /\ facts[k].tag = TagOfField[f]
                        /\ Some(facts[k].val) = unwrap(c.ret)[f]

C2_Witness ==
    /\ prog = "day04"
    /\ Len(hist) >= 3
    /\ is_some(hist[1].ret) /\ is_some(hist[2].ret) /\ is_none(hist[3].ret)

RequiredFields ==
    {"birth_year", "eye_color", "expiration_year", "hair_color",
     "height", "issue_year", "passport_id"}

\* C3: is_valid answers, for every Passport, whether the seven required
\* fields are all present, whatever country_id is.
C3_ValidIffSevenRequired ==
    (prog = "passport" /\ hist # <<>>) =>
        /\ hist[1].ret \in {Some(TRUE), Some(FALSE)}
        /\ unwrap(hist[1].ret) = (RequiredFields \subseteq Populated(passport))
        /\ unwrap(hist[1].ret) = is_valid([passport EXCEPT !.country_id = None])
        /\ unwrap(hist[1].ret) = is_valid([passport EXCEPT !.country_id = Some("v1")])

C3_Witness ==
    /\ prog = "passport" /\ hist # <<>>
    /\ hist[1].ret = Some(TRUE)
    /\ is_none(passport.country_id)

----------------------------------------------------------------------------
(* Day 2: what the claims speak of.                                        *)

\* Whether position i of the password holds the target character.
Holds(r, i) == i < Len(r.password) /\ r.password[i + 1] = r.target_char

\* C4: PasswordRule::is_valid answers, for every rule, whether exactly one
\* of first_spot and second_spot holds target_char; a spot at or beyond the
\* password's length holds nothing.
C4_ExactlyOneSpot ==
    (prog = "rule" /\ hist # <<>>) =>
        /\ hist[1].ret \in {Some(TRUE), Some(FALSE)}
        /\ unwrap(hist[1].ret) = (Holds(rule, rule.first_spot) # Holds(rule, rule.second_spot))

C4_Witness ==
    /\ prog = "rule" /\ hist # <<>>
    /\ hist[1].ret = Some(FALSE)
    /\ rule.first_spot # rule.second_spot
    /\ Holds(rule, rule.first_spot) /\ Holds(rule, rule.second_spot)

\* The tokens of a well-formed rule line "N-M c: pw", N and M one-based,
\* start at position i of toks.
IsRuleAt(toks, i) ==
    /\ i >= 1 /\ i + 4 <= Len(toks)
    /\ toks[i].tag = "Number" /\ toks[i].n >= 1
    /\ toks[i + 1].tag = "Dash"
    /\ toks[i + 2].tag = "Number" /\ toks[i + 2].n >= 1
    /\ toks[i + 3].tag = "TargetCharacter"
    /\ toks[i + 4].tag = "Password"

\* The rule that line stands for.
RuleOfLine(toks, i) ==
    [first_spot |-> toks[i].n - 1, second_spot |-> toks[i + 2].n - 1,
     target_char |-> toks[i + 3].c, password |-> toks[i + 4].pw]

abcde == <<"a", "b", "c", "d", "e">>

RuleLinesOnly(toks) ==
    /\ Len(toks) % 5 = 0
    /\ \A j \in 0..((Len(toks) \div 5) - 1) : IsRuleAt(toks, 5 * j + 1)

NoDirectCalls == \A i \in 1..Len(hist) : hist[i].op = "next"

\* C6: over k well-formed rule lines the iterator's i-th call, i <= k,
\* returns the i-th line's rule and reads that line's tokens, and call k+1
\* returns None.
C6_RulesInOrderThenNone ==
    (prog = "day02" /\ RuleLinesOnly(lexer) /\ NoDirectCalls) =>
      LET k == Len(lexer) \div 5 IN
      \A i \in 1..Len(NextCalls) :
        LET c == NextCalls[i] IN
          /\ i <= k => /\ c.ret = Some(RuleOfLine(lexer, 5 * (i - 1) + 1))
                       /\ c.lo = 5 * (i - 1) + 1
                       /\ c.hi = 5 * i
          /\ i = k + 1 => is_none(c.ret) /\ c.hi = Len(lexer)

C6_Witness ==
    /\ prog = "day02" /\ RuleLinesOnly(lexer) /\ NoDirectCalls
    /\ Len(lexer) = 10
    /\ Len(NextCalls) = 3
    /\ is_some(NextCalls[1].ret) /\ is_some(NextCalls[2].ret)
    /\ NextCalls[1].ret # NextCalls[2].ret
    /\ is_none(NextCalls[3].ret)

\* Day 2: when the iteration is over, every well-formed rule line that
\* follows an Error token has been yielded.
C10_Day02 ==
    (prog = "day02" /\ NoDirectCalls /\ IterationOver) =>
      \A i \in 1..Len(lexer) :
        (IsRuleAt(lexer, i) /\ \E j \in 1..(i - 1) : lexer[j].tag = "Error")
           => \E n \in 1..(FirstNone - 1) :
                 /\ NextCalls[n].lo = i
                 /\ NextCalls[n].ret = Some(RuleOfLine(lexer, i))

\* The fields of the field tokens among toks[lo..hi].
FieldsRead(toks, lo, hi) ==
    {f \in DOMAIN TagOfField : \E k \in lo..hi : toks[k].tag = TagOfField[f]}

\* No block of the stream is closed by a DocumentEnd without holding a field.
NoEmptyBlock(toks) ==
    \A i \in 1..Len(toks) :
        toks[i].tag = "DocumentEnd" =>
           \E j \in 1..(i - 1) :
              /\ IsField(toks[j])
              /\ \A k \in (j + 1)..(i - 1) : toks[k].tag # "DocumentEnd"

\* Day 4: an Error or Invalid token neither ends the stream nor touches the
\* fields accumulated: when the iteration is over, every non-empty block
\* has been yielded with all the fields of its field tokens.
C10_Day04 ==
    (prog = "day04" /\ NoEmptyBlock(facts) /\ IterationOver) =>
      /\ Len(Yielded) = Cardinality(BlockStarts(facts))
      /\ \A n \in 1..(FirstNone - 1) :
           Populated(Yielded[n]) = FieldsRead(facts, NextCalls[n].lo, NextCalls[n].hi)

\* C10: in both record parsers an Error or Invalid token is not fatal: it
\* does not end the record stream, and every well-formed record after it
\* is yielded by the same iteration.
C10_ErrorTokenNotFatal == C10_Day02 /\ C10_Day04

----------------------------------------------------------------------------
(* Day 3: what the claims speak of.                                        *)

\* C7: tile_at(x, y) is None for y >= height, whatever x is; for
\* y < height it is Some, the tile of row y at column x mod width, and so
\* equal to tile_at(x mod width, y).  No lookup panics.
C7_WrapsHorizontallyOnly ==
    prog = "day03" =>
      /\ panicked => map = None
      /\ (hist # <<>> /\ hist[1].op = "tile_at") =>
           LET m == unwrap(map)
               x == hist[1].args[1]
               y == hist[1].args[2]
               r == hist[1].ret
           IN  /\ y >= m.height => r = None
               /\ y < m.height =>
                    /\ Len(r) = 1
                    /\ r = Some(m.tiles[(y * m.width) + (x % m.width) + 1])
                    /\ r = tile_at(m, x % m.width, y)

C7_Witness ==
    /\ prog = "day03" /\ hist # <<>> /\ hist[1].op = "tile_at"
    /\ unwrap(map).width = 2 /\ unwrap(map).height = 2
    /\ hist[1].args = <<3, 1>>
    /\ hist[1].ret = Some("Tree")
    /\ tile_at(unwrap(map), 0, 1) = Some("Open")

\* The text is h rows of w tile characters, a newline after each row but
\* possibly the last.
IsGrid(src, w, h) ==
    /\ Len(src) \in {(h * (w + 1)) - 1, h * (w + 1)}
    /\ \A p \in 1..Len(src) :
         IF p % (w + 1) = 0 THEN src[p] = "\n" ELSE src[p] \in {".", "#"}

\* The tile characters of such a text, row by row.
GridTiles(src, w, h) ==
    [i \in 1..(w * h) |->
        IF src[(((i - 1) \div w) * (w + 1)) + ((i - 1) % w) + 1] = "." THEN "Open" ELSE "Tree"]

Parsed == map # None \/ panicked

\* C8: for a text of h >= 1 rows of w >= 1 tile characters, with or without
\* a trailing newline, Map::parse returns width w, height h and the w*h
\* tiles in row-major order, none of them a RowEnd or an Error.
C8_ParseRectangular ==
    (prog = "day03" /\ Parsed) =>
      \A w \in 1..MaxSource, h \in 1..MaxSource :
        IsGrid(source, w, h) =>
          /\ map # None
          /\ unwrap(map).width = w
          /\ unwrap(map).height = h
          /\ Len(unwrap(map).tiles) = w * h
          /\ unwrap(map).tiles = GridTiles(source, w, h)
          /\ \A i \in 1..Len(unwrap(map).tiles) :
                unwrap(map).tiles[i] \in {"Open", "Tree"}

C8_Witness ==
    /\ prog = "day03" /\ map # None
    /\ source = <<".", "#", "\n", "#", ".">>
    /\ unwrap(map) = [tiles |-> <<"Open", "Tree", "Tree", "Open">>,
                      width |-> 2, height |-> 2]

\* C9: toboggan_path over build_slope(dx, dy), dy >= 1, returns the tiles
\* tile_at(k*dx, k*dy) for k = 1, 2, ... while k*dy < height, in order: the
\* tile at (0, 0) is not among them, and the walk ends below the last row.
C9_PathTiles ==
    (prog = "day03" /\ hist # <<>> /\ hist[1].op = "toboggan_path") =>
      LET m == unwrap(map)
          dx == hist[1].args[1]
          dy == hist[1].args[2]
          n == IF m.height = 0 THEN 0 ELSE (m.height - 1) \div dy
      IN  /\ Len(hist[1].ret) = n
          /\ \A k \in 1..n :
               /\ k * dy < m.height
               /\ Some(hist[1].ret[k]) = tile_at(m, k * dx, k * dy)
               /\ hist[1].ret[k] = m.tiles[((k * dy) * m.width) + ((k * dx) % m.width) + 1]
          /\ (n + 1) * dy >= m.height

C9_Witness ==
    /\ prog = "day03" /\ hist # <<>> /\ hist[1].op = "toboggan_path"
    /\ source = <<".", "#", "\n", "#", ".">>
    /\ hist[1].args = <<2, 1>>
    /\ hist[1].ret = <<"Tree">>

----------------------------------------------------------------------------
(* Exhaustion of the record iterators, and the bounds of the map.          *)

\* The tokens of the running parser's lexer.
ParserTokens == IF prog = "day04" THEN facts ELSE lexer

\* C11: in both record iterators, once a call of next() has returned None
\* every later call returns None, and None is returned only when the lexer
\* has no token left.
C11_ExhaustionIsFinal ==
    prog \in {"day02", "day04"} =>
      \A i \in 1..Len(NextCalls) :
        is_none(NextCalls[i].ret) =>
          /\ NextCalls[i].hi = Len(ParserTokens)
          /\ \A j \in (i + 1)..Len(NextCalls) : is_none(NextCalls[j].ret)

\* What does hold: a call that begins at an exhausted lexer returns None.
C11_NoneAtExhaustedLexer ==
    prog \in {"day02", "day04"} =>
      \A i \in 1..Len(NextCalls) :
        NextCalls[i].lo > Len(ParserTokens) => is_none(NextCalls[i].ret)

\* C12: every Map that Map::parse returns has width >= 1 and
\* height * width <= tiles.len(), so for y < height the index
\* y*width + (x mod width) of tile_at is within tiles, and no lookup panics.
C12_LookupInRange ==
    prog = "day03" =>
      /\ panicked => map = None
      /\ map # None =>
           LET m == unwrap(map) IN
             /\ m.width >= 1
             /\ m.height * m.width <= Len(m.tiles)
             /\ \A x \in 0..MaxX, y \in 0..MaxY :
                  y < m.height =>
                    /\ (y * m.width) + (x % m.width) < Len(m.tiles)
                    /\ tile_at(m, x, y) # Panic

\* A ragged text whose first row holds an unrecognized character: the map
\* has more tiles than height * width, and a lookup in it has answered.
C12_Witness ==
    /\ prog = "day03" /\ map # None
    /\ source = <<"x", ".", "\n", "#", "\n">>
    /\ unwrap(map) = [tiles |-> <<"Open", "Tree">>, width |-> 2, height |-> 1]
    /\ hist # <<>> /\ hist[1].op = "tile_at"
    /\ hist[1].args = <<3, 0>>
    /\ hist[1].ret = Some("Tree")

====
